---- MODULE Spec2Model ----
(***************************************************************************)
(* Verification model of the network-resilience layer of the merchant app: *)
(*   - the error classifier (analyzeError, shouldQueueForRetry) of         *)
(*     utils/errorHandler (src/types/transactions.ts, lines 756-1087);     *)
(*   - the connectivity store with its retry queue (useNetworkStore,       *)
(*     src/unnamed/part_001).                                              *)
(* Strings whose content the code inspects (error messages) are sequences  *)
(* of one-character strings, so that toLowerCase() and includes() are      *)
(* computed as the code computes them.                                     *)
(***************************************************************************)
EXTENDS Integers, Sequences, FiniteSets, Bags, TLC

VARIABLES
  \* ---- useNetworkStore state (part_001:46-53) ----
  isConnected, isInternetReachable, connectionType, isInitialized,
  lastConnectedAt, isSlowConnection, connectionQuality, retryQueue,
  \* ---- runtime around the store ----
  timers,       \* pending setTimeout callbacks of setConnectionStatus
  drains,       \* bag of the processRetryQueue calls that have not returned
  \* ---- platform connectivity notifier (NetInfo) ----
  listeners,    \* listeners registered with NetInfo.addEventListener
  fetches,      \* NetInfo.fetch() promises that have not settled
  \* ---- service layer: one call of a service function on an HTTP client ----
  service,      \* the call in progress and what became of its failure
  \* ---- perks store (usePerksStore) ----
  orders,       \* the orders array
  isLoading,    \* the isLoading flag
  perksError,   \* the error field: <<>> (null) or <<message>>
  calls,        \* per caller: its verifyRedemption call and what it returned
  \* ---- error classifier: inputs and results of the pure functions ----
  error,          \* the raw failure handed to analyzeError
  enhancedError,  \* <<>> or <<d>>: the descriptor analyzeError returned
  otherError,     \* <<>> or <<d>>: the descriptor of a second call
  queueDecision,  \* <<>> or <<[error, result]>>: a shouldQueueForRetry call
  \* ---- observers of the replay (history variables) ----
  outcomes,     \* per id: outcomes of the replays since its last enqueue
  lastCall      \* the store method that ran last

storeVars == <<isConnected, isInternetReachable, connectionType, isInitialized,
               lastConnectedAt, isSlowConnection, connectionQuality>>
queueVars == <<retryQueue, drains, timers>>
classifierVars == <<error, enhancedError, otherError, queueDecision>>
historyVars == <<outcomes, lastCall>>
platformVars == <<listeners, fetches>>
perksVars == <<orders, isLoading, perksError, calls>>
serviceVars == <<service, perksVars>>
vars == <<storeVars, queueVars, classifierVars, historyVars, platformVars, serviceVars>>

(***************************************************************************)
(* Strings                                                                 *)
(***************************************************************************)
NETWORK_ERROR_PATTERNS ==
  << <<"n", "e", "t", "w", "o", "r", "k", " ", "e", "r", "r", "o", "r">>,
     <<"n", "e", "t", "w", "o", "r", "k", " ", "r", "e", "q", "u", "e", "s", "t", " ", "f", "a", "i", "l", "e", "d">>,
     <<"f", "a", "i", "l", "e", "d", " ", "t", "o", " ", "f", "e", "t", "c", "h">>,
     <<"f", "e", "t", "c", "h", " ", "e", "r", "r", "o", "r">>,
     <<"c", "o", "n", "n", "e", "c", "t", "i", "o", "n", " ", "e", "r", "r", "o", "r">>,
     <<"n", "o", " ", "i", "n", "t", "e", "r", "n", "e", "t">>,
     <<"o", "f", "f", "l", "i", "n", "e">>,
     <<"n", "e", "t", ":", ":", "e", "r", "r", "_", "i", "n", "t", "e", "r", "n", "e", "t", "_", "d", "i", "s", "c", "o", "n", "n", "e", "c", "t", "e", "d">>,
     <<"n", "e", "t", ":", ":", "e", "r", "r", "_", "n", "a", "m", "e", "_", "n", "o", "t", "_", "r", "e", "s", "o", "l", "v", "e", "d">>,
     <<"n", "e", "t", ":", ":", "e", "r", "r", "_", "n", "e", "t", "w", "o", "r", "k", "_", "c", "h", "a", "n", "g", "e", "d">> >>

TIMEOUT_ERROR_PATTERNS ==
  << <<"t", "i", "m", "e", "o", "u", "t">>,
     <<"r", "e", "q", "u", "e", "s", "t", " ", "t", "i", "m", "e", "o", "u", "t">>,
     <<"e", "c", "o", "n", "n", "a", "b", "o", "r", "t", "e", "d">>,
     <<"e", "t", "i", "m", "e", "d", "o", "u", "t">>,
     <<"r", "e", "q", "u", "e", "s", "t", " ", "t", "i", "m", "e", "d", " ", "o", "u", "t">> >>

MsgNetworkError == <<"N", "e", "t", "w", "o", "r", "k", " ", "E", "r", "r", "o", "r">>

MsgTimeoutUpper == <<"T", "I", "M", "E", "O", "U", "T">>

MsgTimedOut == <<"R", "e", "q", "u", "e", "s", "t", " ", "T", "i", "m", "e", "d", " ", "O", "u", "t">>

MsgNetworkTimeout == <<"N", "e", "t", "w", "o", "r", "k", " ", "E", "r", "r", "o", "r", ":", " ", "T", "i", "m", "e", "o", "u", "t">>

MsgOther == <<"b", "o", "o", "m">>

MsgEmpty == <<>>

MsgUnknownError == <<"U", "n", "k", "n", "o", "w", "n", " ", "e", "r", "r", "o", "r">>

MsgErrorName == <<"E", "r", "r", "o", "r">>

MsgServerText == <<"d", "e", "n", "i", "e", "d">>

MsgObjectObject == <<"[", "o", "b", "j", "e", "c", "t", " ", "O", "b", "j", "e", "c", "t", "]">>

MsgFailedToDelete == <<"F", "a", "i", "l", "e", "d", " ", "t", "o", " ", "d", "e", "l", "e", "t", "e", " ", "a", "c", "c", "o", "u", "n", "t">>

MsgNoAccessToken == <<"N", "o", " ", "a", "c", "c", "e", "s", "s", " ", "t", "o", "k", "e", "n", " ", "f", "o", "u", "n", "d", ".", " ", "P", "l", "e", "a", "s", "e", " ", "l", "o", "g", " ", "i", "n", ".">>

UpperCaseLetters == <<"A", "B", "C", "D", "E", "F", "G", "H", "I", "J", "K", "L", "M", "N", "O", "P", "Q", "R", "S", "T", "U", "V", "W", "X", "Y", "Z">>

LowerCaseLetters == <<"a", "b", "c", "d", "e", "f", "g", "h", "i", "j", "k", "l", "m", "n", "o", "p", "q", "r", "s", "t", "u", "v", "w", "x", "y", "z">>

TypeWifi == <<"w", "i", "f", "i">>
TypeWifiUpper == <<"W", "I", "F", "I">>
TypeCellular == <<"c", "e", "l", "l", "u", "l", "a", "r">>
TypeCellular3g == <<"C", "e", "l", "l", "u", "l", "a", "r", "-", "3", "G">>
TypeLte == <<"L", "T", "E">>
TypeNone == <<"n", "o", "n", "e">>
TypeUnknown == <<"u", "n", "k", "n", "o", "w", "n">>

Tag_wifi == <<"w", "i", "f", "i">>
Tag_ethernet == <<"e", "t", "h", "e", "r", "n", "e", "t">>
Tag_5g == <<"5", "g">>
Tag_lte == <<"l", "t", "e">>
Tag_4g == <<"4", "g">>
Tag_3g == <<"3", "g">>
Tag_2g == <<"2", "g">>
Tag_edge == <<"e", "d", "g", "e">>
Tag_gprs == <<"g", "p", "r", "s">>
Tag_cellular == <<"c", "e", "l", "l", "u", "l", "a", "r">>
Tag_mobile == <<"m", "o", "b", "i", "l", "e">>

\* String.prototype.toLowerCase on the letters A-Z
LowerChar(c) ==
  IF \E i \in DOMAIN UpperCaseLetters : UpperCaseLetters[i] = c
  THEN LowerCaseLetters[CHOOSE i \in DOMAIN UpperCaseLetters : UpperCaseLetters[i] = c]
  ELSE c

toLowerCase(s) == [i \in DOMAIN s |-> LowerChar(s[i])]

\* String.prototype.includes
includes(s, p) ==
  \E i \in 0..(Len(s) - Len(p)) : SubSeq(s, i + 1, i + Len(p)) = p

(***************************************************************************)
(* Error classifier                                                        *)
(***************************************************************************)
ErrorType ==
  {"NETWORK_ERROR", "TIMEOUT_ERROR", "SERVER_ERROR", "AUTHENTICATION_ERROR",
   "AUTHORIZATION_ERROR", "VALIDATION_ERROR", "NOT_FOUND_ERROR",
   "RATE_LIMIT_ERROR", "UNKNOWN_ERROR"}

ErrorSeverity == {"LOW", "MEDIUM", "HIGH", "CRITICAL"}

USER_FRIENDLY_MESSAGES ==
  [t \in ErrorType |->
    CASE t = "NETWORK_ERROR" ->
           [title |-> "Connection Issue",
            message |-> "Unable to connect to the internet. Please check your connection and try again.",
            action |-> "Retry"]
      [] t = "TIMEOUT_ERROR" ->
           [title |-> "Request Timeout",
            message |-> "The request is taking too long. Please try again.",
            action |-> "Retry"]
      [] t = "SERVER_ERROR" ->
           [title |-> "Server Issue",
            message |-> "Our servers are experiencing issues. Please try again later.",
            action |-> "Retry"]
      [] t = "AUTHENTICATION_ERROR" ->
           [title |-> "Authentication Required",
            message |-> "Please sign in to continue.",
            action |-> "Sign In"]
      [] t = "AUTHORIZATION_ERROR" ->
           [title |-> "Access Denied",
            message |-> "You don't have permission to access this resource.",
            action |-> "OK"]
      [] t = "VALIDATION_ERROR" ->
           [title |-> "Invalid Data",
            message |-> "Please check your input and try again.",
            action |-> "OK"]
      [] t = "NOT_FOUND_ERROR" ->
           [title |-> "Not Found",
            message |-> "The requested resource could not be found.",
            action |-> "OK"]
      [] t = "RATE_LIMIT_ERROR" ->
           [title |-> "Too Many Requests",
            message |-> "You're making requests too quickly. Please wait a moment and try again.",
            action |-> "OK"]
      [] OTHER ->
           [title |-> "Something Went Wrong",
            message |-> "An unexpected error occurred. Please try again.",
            action |-> "Retry"]]

isNetworkError(message) ==
  LET lowerMessage == toLowerCase(message)
  IN  \E k \in DOMAIN NETWORK_ERROR_PATTERNS :
        includes(lowerMessage, NETWORK_ERROR_PATTERNS[k])

\* mutant: the message is matched without toLowerCase()
isTimeoutErrorCaseSensitive(message) ==
  \E k \in DOMAIN TIMEOUT_ERROR_PATTERNS :
    includes(message, TIMEOUT_ERROR_PATTERNS[k])

isTimeoutError(message) ==
  LET lowerMessage == toLowerCase(message)
  IN  \E k \in DOMAIN TIMEOUT_ERROR_PATTERNS :
        includes(lowerMessage, TIMEOUT_ERROR_PATTERNS[k])

\* mutant: no branch ever sets canRetry = false
ClassAlwaysRetryable(t, s, r) == [type |-> t, severity |-> s, canRetry |-> TRUE]

\* The three fields the branches of analyzeError assign together.
Class(t, s, r) == [type |-> t, severity |-> s, canRetry |-> r]

\* let type = UNKNOWN_ERROR; let severity = MEDIUM; let canRetry = true
InitialClass == Class("UNKNOWN_ERROR", "MEDIUM", TRUE)

\* mutant: a message-matched network error is given the severity MEDIUM
ClassifyMessageMediumNetwork(message, fallback) ==
  IF isNetworkError(message) THEN Class("NETWORK_ERROR", "MEDIUM", TRUE)
  ELSE IF isTimeoutError(message) THEN Class("TIMEOUT_ERROR", "MEDIUM", TRUE)
  ELSE fallback

\* Request was made but no response received (lines 887-899); the same
\* chain without the final default classifies non-axios errors (963-971).
ClassifyMessage(message, fallback) ==
  IF isNetworkError(message) THEN Class("NETWORK_ERROR", "HIGH", TRUE)
  ELSE IF isTimeoutError(message) THEN Class("TIMEOUT_ERROR", "MEDIUM", TRUE)
  ELSE fallback

\* mutant: the default branch tests >= 400 first, so an unlisted 5xx is a
\* validation error
ClassifyStatusDefaultOrder(statusCode) ==
  CASE statusCode = 400 -> Class("VALIDATION_ERROR", "LOW", FALSE)
    [] statusCode = 401 -> Class("AUTHENTICATION_ERROR", "HIGH", FALSE)
    [] statusCode = 403 -> Class("AUTHORIZATION_ERROR", "MEDIUM", FALSE)
    [] statusCode = 404 -> Class("NOT_FOUND_ERROR", "LOW", FALSE)
    [] statusCode = 429 -> Class("RATE_LIMIT_ERROR", "MEDIUM", TRUE)
    [] statusCode \in {500, 502, 503, 504} -> Class("SERVER_ERROR", "HIGH", TRUE)
    [] OTHER ->
         IF statusCode >= 400 THEN Class("VALIDATION_ERROR", "LOW", FALSE)
         ELSE IF statusCode >= 500 THEN Class("SERVER_ERROR", "HIGH", TRUE)
         ELSE InitialClass

\* switch (statusCode) of lines 902-947
ClassifyStatus(statusCode) ==
  CASE statusCode = 400 -> Class("VALIDATION_ERROR", "LOW", FALSE)
    [] statusCode = 401 -> Class("AUTHENTICATION_ERROR", "HIGH", FALSE)
    [] statusCode = 403 -> Class("AUTHORIZATION_ERROR", "MEDIUM", FALSE)
    [] statusCode = 404 -> Class("NOT_FOUND_ERROR", "LOW", FALSE)
    [] statusCode = 429 -> Class("RATE_LIMIT_ERROR", "MEDIUM", TRUE)
    [] statusCode \in {500, 502, 503, 504} -> Class("SERVER_ERROR", "HIGH", TRUE)
    [] OTHER ->
         IF statusCode >= 500 THEN Class("SERVER_ERROR", "HIGH", TRUE)
         ELSE IF statusCode >= 400 THEN Class("VALIDATION_ERROR", "LOW", FALSE)
         ELSE InitialClass

\* Extract error message from response (lines 950-957)
ResponseMessage(data, transportMessage) ==
  IF data.shape = "string" THEN data.text
  ELSE IF data.shape = "message" /\ data.text # <<>> THEN data.text
  ELSE IF data.shape = "error" /\ data.text # <<>> THEN data.text
  ELSE transportMessage

\* error?.message || error?.toString() || 'Unknown error' (line 961); an
\* Error without message prints as "Error", a plain object as
\* "[object Object]"
NonAxiosMessage(e) ==
  IF e.kind = "null" THEN MsgUnknownError
  ELSE IF e.kind = "string"
       THEN (IF e.message # <<>> THEN e.message ELSE MsgUnknownError)
  ELSE IF e.message # <<>> THEN e.message
  ELSE IF e.kind = "plain" THEN MsgObjectObject
  ELSE MsgErrorName

\* error?.isAxiosError || error?.response || error?.request (line 879)
IsAxiosLike(e) ==
  e.kind = "object" /\ (e.isAxiosError \/ e.response # <<>> \/ e.hasRequest)

analyzeError(e) ==
  LET hasResponse == e.response # <<>>
      statusCode == IF IsAxiosLike(e) /\ hasResponse
                    THEN <<e.response[1].status>> ELSE <<>>
      class ==
        IF IsAxiosLike(e)
        THEN IF ~hasResponse /\ e.hasRequest
             THEN ClassifyMessage(e.message, Class("NETWORK_ERROR", "HIGH", TRUE))
             ELSE IF hasResponse
                  THEN ClassifyStatus(e.response[1].status)
                  ELSE InitialClass
        ELSE ClassifyMessage(NonAxiosMessage(e), InitialClass)
      originalMessage ==
        IF IsAxiosLike(e)
        THEN IF hasResponse
             THEN ResponseMessage(e.response[1].data, e.message)
             ELSE e.message
        ELSE NonAxiosMessage(e)
  IN  [type |-> class.type,
       severity |-> class.severity,
       message |-> originalMessage,
       userMessage |-> USER_FRIENDLY_MESSAGES[class.type].message,
       statusCode |-> statusCode,
       canRetry |-> class.canRetry,
       shouldShowNotification |-> TRUE,
       shouldLog |-> TRUE]

\* mutant: every retryable descriptor is queued
shouldQueueForRetryAnyRetryable(d) == d.canRetry

shouldQueueForRetry(d) ==
  d.canRetry /\ (d.type = "NETWORK_ERROR" \/ d.type = "TIMEOUT_ERROR"
                 \/ d.type = "SERVER_ERROR")

(***************************************************************************)
(* Connectivity store and retry queue (useNetworkStore)                    *)
(***************************************************************************)
\* null; a nullable value v is <<v>>, a nullable string is the string itself
\* (null and '' are both falsy where the code tests them)
Null == <<>>

BatchSize == 3     \* for (let i = 0; ...; i += 3), retryQueue.slice(i, i + 3)
MaxRetries == 3    \* queueItem.retryCount < 3

\* mutant: the connection type is looked at before the connectivity flags
determineConnectionQualityTypeFirst(connected, reachable, type) ==
  IF type # Null /\ includes(toLowerCase(type), Tag_wifi) THEN "excellent"
  ELSE IF ~connected \/ reachable = <<FALSE>> THEN "offline"
  ELSE "good"

determineConnectionQuality(connected, reachable, type) ==
  IF ~connected \/ reachable = <<FALSE>> THEN "offline"
  ELSE IF type = Null THEN "good"
  ELSE LET lowerType == toLowerCase(type)
       IN  IF includes(lowerType, Tag_wifi) \/ includes(lowerType, Tag_ethernet)
           THEN "excellent"
           ELSE IF includes(lowerType, Tag_5g) \/ includes(lowerType, Tag_lte)
                   \/ includes(lowerType, Tag_4g)
           THEN "good"
           ELSE IF includes(lowerType, Tag_3g) \/ includes(lowerType, Tag_2g)
                   \/ includes(lowerType, Tag_edge) \/ includes(lowerType, Tag_gprs)
           THEN "poor"
           ELSE IF includes(lowerType, Tag_cellular) \/ includes(lowerType, Tag_mobile)
           THEN "good"
           ELSE "good"

\* mutant: the queue is cut at the first entry with the id
WithoutIdCutsTail(queue, id) ==
  IF \E i \in DOMAIN queue : queue[i].id = id
  THEN SubSeq(queue, 1, (CHOOSE i \in DOMAIN queue :
                           /\ queue[i].id = id
                           /\ \A j \in 1..(i - 1) : queue[j].id # id) - 1)
  ELSE queue

\* Array.prototype.filter(item => item.id !== id)
WithoutId(queue, id) ==
  LET Keep(item) == item.id # id IN SelectSeq(queue, Keep)

\* the entry addToRetryQueue builds (timestamp: every Date is the one value
\* "date"; no code of the store reads a timestamp)
NewItem(id, request) ==
  [id |-> id, request |-> request, timestamp |-> "date", retryCount |-> 0]

\* mutant: the failure raises the count and drops nothing
FailedQueueNeverDrops(queue, id) ==
  [i \in DOMAIN queue |->
     IF queue[i].id = id
     THEN [queue[i] EXCEPT !.retryCount = queue[i].retryCount + 1]
     ELSE queue[i]]

\* mutant: the entry is dropped one failure late (retryCount <= 3)
FailedQueueOneLate(queue, id) ==
  LET updatedQueue ==
        [i \in DOMAIN queue |->
           IF queue[i].id = id
           THEN [queue[i] EXCEPT !.retryCount = queue[i].retryCount + 1]
           ELSE queue[i]]
      Keep(queueItem) == queueItem.id # id \/ queueItem.retryCount <= MaxRetries
  IN  SelectSeq(updatedQueue, Keep)

\* mutant: the failure raises the count of every entry
FailedQueueRaisesAll(queue, id) ==
  LET updatedQueue ==
        [i \in DOMAIN queue |->
           [queue[i] EXCEPT !.retryCount = queue[i].retryCount + 1]]
      Keep(queueItem) == queueItem.id # id \/ queueItem.retryCount < MaxRetries
  IN  SelectSeq(updatedQueue, Keep)

\* the catch block of processItem: raise the count of the entries with the
\* item's id, then drop those that reached the limit
FailedQueue(queue, id) ==
  LET updatedQueue ==
        [i \in DOMAIN queue |->
           IF queue[i].id = id
           THEN [queue[i] EXCEPT !.retryCount = queue[i].retryCount + 1]
           ELSE queue[i]]
      Keep(queueItem) == queueItem.id # id \/ queueItem.retryCount < MaxRetries
  IN  SelectSeq(updatedQueue, Keep)

\* mutant: the existing entry is not filtered out
AddedQueueKeepsOld(queue, id, request) ==
  Append(queue, NewItem(id, request))

\* addToRetryQueue: [...filteredQueue, newItem]
AddedQueue(queue, id, request) ==
  Append(WithoutId(queue, id), NewItem(id, request))

\* mutant: the update also drops the entries queued behind the settled one
SettledQueueDropsNewer(queue, id, succeeded) ==
  LET Older(item) ==
        \E i \in DOMAIN queue :
          /\ queue[i].id = item.id
          /\ \E k \in i..Len(queue) : queue[k].id = id
      updated == IF succeeded THEN WithoutId(queue, id) ELSE FailedQueue(queue, id)
  IN  SelectSeq(updated, Older)

\* mutant: a succeeded entry is not removed
SettledQueueKeepsSucceeded(queue, id, succeeded) ==
  IF succeeded THEN queue ELSE FailedQueue(queue, id)

\* processItem after the operation settled: removeFromRetryQueue(item.id) in
\* the try block, the retry-count update in the catch block
SettledQueue(queue, id, succeeded) ==
  IF succeeded THEN WithoutId(queue, id) ELSE FailedQueue(queue, id)

\* canMakeRequests(): state.isConnected && state.isInternetReachable !== false
canMakeRequests == isConnected /\ isInternetReachable # <<FALSE>>

\* getRetryableRequests(): state.retryQueue.filter(request => request.retryCount < 3)
getRetryableRequests ==
  LET Retryable(request) == request.retryCount < MaxRetries
  IN  SelectSeq(retryQueue, Retryable)

\* the retry counts of the entries queued under id
CountsOf(queue, id) ==
  LET Same(item) == item.id = id
      same == SelectSeq(queue, Same)
  IN  [i \in DOMAIN same |-> same[i].retryCount]

Min(a, b) == IF a < b THEN a ELSE b

\* mutant: no chunking, every item of the snapshot is invoked at once
StartChunkAll(items) ==
  [pending |-> {items[i].id : i \in 1..Len(items)},
   rest |-> <<>>]

\* chunk.map(processItem) on the next chunk of the snapshot: every operation
\* of the chunk is invoked; the chunks after it wait for Promise.allSettled
StartChunk(items) ==
  [pending |-> {items[i].id : i \in 1..Min(BatchSize, Len(items))},
   rest |-> SubSeq(items, BatchSize + 1, Len(items))]

\* history: the replay outcomes of an id since it was last enqueued
Record(id, what) ==
  [i \in DOMAIN outcomes |->
     IF i # id THEN outcomes[i]
     ELSE IF what = "enqueued" THEN <<>>
     ELSE Append(outcomes[i], what)]

\* what a chunk of processRetryQueue holds of a queue entry (processItem
\* reads item.id and item.request only)
SnapshotItem(entry) == [id |-> entry.id, request |-> entry.request]

Snapshot(queue) == [i \in DOMAIN queue |-> SnapshotItem(queue[i])]

\* history of a drain: how often it has invoked the operation of each entry
\* of its snapshot and how often it has seen one settle, and the operation
\* each item of the snapshot holds (kept when the history has the key 0,
\* which is the id of no entry)
Ledger(chunk, items, ids) ==
  [pending |-> chunk.pending, rest |-> chunk.rest,
   invoked |-> [id \in ids |-> IF id \in chunk.pending THEN 1 ELSE 0],
   settled |-> [id \in ids |-> 0],
   snapshot |-> [id \in ids |->
                   items[CHOOSE i \in DOMAIN items : items[i].id = id].request]]

\* processRetryQueue past its early return: the snapshot is cut into chunks
\* and the first chunk is invoked
NewDrain(items) ==
  Ledger(StartChunk(items), items,
         IF 0 \in DOMAIN outcomes THEN {items[i].id : i \in DOMAIN items} ELSE {})

\* for (const chunk of chunks): the next chunk of the drain d is invoked
NextChunk(d) ==
  LET chunk == StartChunk(d.rest)
  IN  [d EXCEPT !.pending = chunk.pending,
                !.rest = chunk.rest,
                !.invoked = [id \in DOMAIN d.invoked |->
                               IF id \in chunk.pending THEN d.invoked[id] + 1
                               ELSE d.invoked[id]]]

\* processItem of the drain d has seen the operation of id settle
Seen(d, id) ==
  [d EXCEPT !.pending = d.pending \ {id},
            !.settled = [i \in DOMAIN d.settled |->
                           IF i = id THEN d.settled[i] + 1 ELSE d.settled[i]]]

\* the calls in progress, each once
ActiveDrains == BagToSet(drains)

(***************************************************************************)
(* Bounds and input sets                                                   *)
(***************************************************************************)
MaxIds == 2        \* request ids the callers use
MaxDrains == 2     \* processRetryQueue calls that may overlap
MaxTimers == 1     \* reconnect timers that may be pending at once
MaxQueued == 7     \* entries queued when the batched drains begin
MaxIsolated == 4   \* entries queued when the drains with replay history begin
MaxRaced == 2      \* entries queued when the overlapping drains begin

Ids == 1..MaxIds
Operations == {"opA", "opB"}

\* the tri-state values of NetInfo: null, true, false
Nullable == {Null, <<TRUE>>, <<FALSE>>}

\* connection type tags the platform reports, and null
ConnectionTypes == {Null, TypeWifi, TypeWifiUpper, TypeCellular, TypeCellular3g,
                    TypeLte, TypeNone, TypeUnknown}

\* the states NetInfo hands to a listener or resolves a fetch with
NetInfoStates ==
  [isConnected : Nullable, isInternetReachable : Nullable, type : ConnectionTypes]

(***************************************************************************)
(* Store actions                                                           *)
(***************************************************************************)
\* mutant: a timer is set on every call that reports a connection
setConnectionStatusAlwaysSchedules(connected, reachable, type) ==
  LET newQuality == determineConnectionQuality(connected, reachable, type)
  IN  /\ connected => timers < MaxTimers
      /\ isConnected' = connected
      /\ isInternetReachable' = reachable
      /\ connectionType' = type
      /\ lastConnectedAt' = (IF connected THEN <<"date">> ELSE lastConnectedAt)
      /\ isSlowConnection' = (newQuality = "poor")
      /\ connectionQuality' = newQuality
      /\ timers' = (IF connected THEN timers + 1 ELSE timers)
      /\ lastCall' = <<"setConnectionStatus", connected>>
      /\ UNCHANGED <<isInitialized, retryQueue, drains, outcomes, classifierVars,
                     serviceVars>>

\* the body of setConnectionStatus: set({...}) and the reconnect setTimeout
setConnectionStatus(connected, reachable, type) ==
  LET newQuality == determineConnectionQuality(connected, reachable, type)
      restored == connected /\ ~isConnected
  IN  /\ restored => timers < MaxTimers
      /\ isConnected' = connected
      /\ isInternetReachable' = reachable
      /\ connectionType' = type
      /\ lastConnectedAt' = (IF connected THEN <<"date">> ELSE lastConnectedAt)
      /\ isSlowConnection' = (newQuality = "poor")
      /\ connectionQuality' = newQuality
      /\ timers' = (IF restored THEN timers + 1 ELSE timers)
      /\ lastCall' = <<"setConnectionStatus", connected>>
      /\ UNCHANGED <<isInitialized, retryQueue, drains, outcomes, classifierVars,
                     serviceVars>>

\* a caller of the store runs setConnectionStatus
SetConnectionStatus(connected, reachable, type) ==
  /\ setConnectionStatus(connected, reachable, type)
  /\ UNCHANGED platformVars

Qualities == {"excellent", "good", "poor", "offline"}

SetConnectionQuality(quality) ==
  /\ connectionQuality' = quality
  /\ isSlowConnection' = (quality = "poor")
  /\ lastCall' = <<"setConnectionQuality", quality>>
  /\ UNCHANGED <<isConnected, isInternetReachable, connectionType, isInitialized,
                 lastConnectedAt, queueVars, outcomes, classifierVars,
                 platformVars, serviceVars>>

\* mutant: the isInitialized test is missing
InitializeEveryCall ==
  /\ listeners' = listeners + 1
  /\ fetches' = fetches + 1
  /\ isInitialized' = TRUE
  /\ lastCall' = <<"initialize">>
  /\ UNCHANGED <<isConnected, isInternetReachable, connectionType, lastConnectedAt,
                 isSlowConnection, connectionQuality, queueVars, outcomes,
                 classifierVars, serviceVars>>

\* initialize(): the early return when already initialized, else the
\* listener registration, the initial fetch and set({ isInitialized: true })
Initialize ==
  /\ IF isInitialized
     THEN UNCHANGED <<isInitialized, listeners, fetches>>
     ELSE /\ listeners' = listeners + 1
          /\ fetches' = fetches + 1
          /\ isInitialized' = TRUE
  /\ lastCall' = <<"initialize">>
  /\ UNCHANGED <<isConnected, isInternetReachable, connectionType, lastConnectedAt,
                 isSlowConnection, connectionQuality, queueVars, outcomes,
                 classifierVars, serviceVars>>

\* state.isConnected ?? false
OrFalse(v) == IF v = Null THEN FALSE ELSE v[1]

\* the callback given to NetInfo.addEventListener runs on a state change
NetInfoListener(state) ==
  /\ listeners > 0
  /\ setConnectionStatus(OrFalse(state.isConnected), state.isInternetReachable, state.type)
  /\ UNCHANGED platformVars

\* NetInfo.fetch() resolves: the .then callback
NetInfoFetchResolves(state) ==
  /\ fetches > 0
  /\ fetches' = fetches - 1
  /\ setConnectionStatus(OrFalse(state.isConnected), state.isInternetReachable, state.type)
  /\ UNCHANGED listeners

\* NetInfo.fetch() rejects: the .catch callback only logs
NetInfoFetchRejects ==
  /\ fetches > 0
  /\ fetches' = fetches - 1
  /\ lastCall' = <<"fetchRejected">>
  /\ UNCHANGED <<storeVars, queueVars, outcomes, classifierVars, listeners, serviceVars>>

\* the body of addToRetryQueue
addToRetryQueue(id, request) ==
  /\ retryQueue' = AddedQueue(retryQueue, id, request)
  /\ outcomes' = Record(id, "enqueued")
  /\ lastCall' = <<"addToRetryQueue", id, request, CountsOf(retryQueue, id)>>
  /\ UNCHANGED <<storeVars, drains, timers, classifierVars, platformVars>>

\* a caller of the useFailedRequestsQueue hook enqueues an operation
AddToRetryQueue(id, request) ==
  /\ addToRetryQueue(id, request)
  /\ UNCHANGED serviceVars

RemoveFromRetryQueue(id) ==
  /\ retryQueue' = WithoutId(retryQueue, id)
  /\ outcomes' = (IF \E i \in DOMAIN retryQueue : retryQueue[i].id = id
                  THEN Record(id, "removed") ELSE outcomes)
  /\ lastCall' = <<"removeFromRetryQueue", id, CountsOf(retryQueue, id)>>
  /\ UNCHANGED <<storeVars, drains, timers, classifierVars, platformVars, serviceVars>>

ClearRetryQueue ==
  /\ retryQueue' = <<>>
  /\ outcomes' = [i \in DOMAIN outcomes |->
                    IF \E k \in DOMAIN retryQueue : retryQueue[k].id = i
                    THEN Append(outcomes[i], "removed") ELSE outcomes[i]]
  /\ lastCall' = <<"clearRetryQueue">>
  /\ UNCHANGED <<storeVars, drains, timers, classifierVars, platformVars, serviceVars>>

\* mutant: the connectivity test is missing
EarlyReturnWhenEmpty == Len(retryQueue) = 0

\* if (!isConnected || retryQueue.length === 0) return;
EarlyReturn == ~isConnected \/ Len(retryQueue) = 0

\* The synchronous part of processRetryQueue: the early return, or the
\* snapshot of the queue and the invocation of the first chunk.  limit is
\* the number of calls the callers let overlap, caller is who called.
processRetryQueue(limit, caller) ==
  /\ IF EarlyReturn
     THEN drains' = drains
     ELSE /\ BagCardinality(drains) < limit
          /\ drains' = drains (+) SetToBag({NewDrain(Snapshot(retryQueue))})
  /\ retryQueue' = retryQueue
  /\ lastCall' = <<"processRetryQueue", caller>>
  /\ UNCHANGED <<storeVars, outcomes, classifierVars, platformVars, serviceVars>>

\* a caller of the useFailedRequestsQueue hook runs the drain
ProcessRetryQueue(limit) ==
  /\ processRetryQueue(limit, "hook")
  /\ UNCHANGED timers

\* the setTimeout callback of setConnectionStatus fires
ReconnectTimer(limit) ==
  /\ timers > 0
  /\ timers' = timers - 1
  /\ processRetryQueue(limit, "timer")

\* mutant: the drain reads isConnected again before each chunk and returns
\* when the connection is lost
ProcessItemSettlesWhileConnected(d, id, succeeded) ==
  /\ BagIn(d, drains)
  /\ id \in d.pending
  /\ retryQueue' = SettledQueue(retryQueue, id, succeeded)
  /\ LET left == d.pending \ {id}
         others == drains (-) SetToBag({d})
     IN  drains' = IF left # {} THEN others (+) SetToBag({Seen(d, id)})
                   ELSE IF Len(d.rest) > 0 /\ isConnected
                        THEN others (+) SetToBag({NextChunk(Seen(d, id))})
                   ELSE others
  /\ outcomes' = Record(id, IF succeeded THEN "ok" ELSE "fail")
  /\ lastCall' = <<"processItem", id, succeeded>>
  /\ UNCHANGED <<storeVars, timers, classifierVars, platformVars, serviceVars>>

\* mutant: the outcome is applied to the queue only while the queue still
\* holds the operation that was invoked
ProcessItemSettlesByEntry(d, id, succeeded) ==
  /\ BagIn(d, drains)
  /\ id \in d.pending
  /\ retryQueue' =
       IF /\ id \in DOMAIN d.snapshot
          /\ \E i \in DOMAIN retryQueue :
               retryQueue[i].id = id /\ retryQueue[i].request # d.snapshot[id]
       THEN retryQueue
       ELSE SettledQueue(retryQueue, id, succeeded)
  /\ LET left == d.pending \ {id}
         others == drains (-) SetToBag({d})
     IN  drains' = IF left # {} THEN others (+) SetToBag({Seen(d, id)})
                   ELSE IF Len(d.rest) > 0 THEN others (+) SetToBag({NextChunk(Seen(d, id))})
                   ELSE others
  /\ outcomes' = Record(id, IF succeeded THEN "ok" ELSE "fail")
  /\ lastCall' = <<"processItem", id, succeeded>>
  /\ UNCHANGED <<storeVars, timers, classifierVars, platformVars, serviceVars>>

\* mutant: Promise.race in place of Promise.allSettled, the drain leaves a
\* chunk as soon as one of its operations settles
ProcessItemSettlesRace(d, id, succeeded) ==
  /\ BagIn(d, drains)
  /\ id \in d.pending
  /\ retryQueue' = SettledQueue(retryQueue, id, succeeded)
  /\ LET others == drains (-) SetToBag({d})
     IN  drains' = IF Len(d.rest) > 0
                   THEN others (+) SetToBag({NextChunk(Seen(d, id))})
                   ELSE others
  /\ outcomes' = Record(id, IF succeeded THEN "ok" ELSE "fail")
  /\ lastCall' = <<"processItem", id, succeeded>>
  /\ UNCHANGED <<storeVars, timers, classifierVars, platformVars, serviceVars>>

\* mutant: a pool of 3, the next waiting operation is invoked as soon as one
\* settles
ProcessItemSettlesPool(d, id, succeeded) ==
  /\ BagIn(d, drains)
  /\ id \in d.pending
  /\ retryQueue' = SettledQueue(retryQueue, id, succeeded)
  /\ LET left == d.pending \ {id}
         others == drains (-) SetToBag({d})
     IN  drains' = IF Len(d.rest) > 0
                   THEN others (+) SetToBag({[Seen(d, id) EXCEPT
                                                !.pending = left \cup {d.rest[1].id},
                                                !.rest = Tail(d.rest)]})
                   ELSE IF left # {} THEN others (+) SetToBag({Seen(d, id)})
                   ELSE others
  /\ outcomes' = Record(id, IF succeeded THEN "ok" ELSE "fail")
  /\ lastCall' = <<"processItem", id, succeeded>>
  /\ UNCHANGED <<storeVars, timers, classifierVars, platformVars, serviceVars>>

\* The operation of an in-flight item settles and processItem resumes; when
\* it was the last of its chunk, Promise.allSettled resolves and the drain
\* invokes the next chunk or returns.
ProcessItemSettles(d, id, succeeded) ==
  /\ BagIn(d, drains)
  /\ id \in d.pending
  /\ retryQueue' = SettledQueue(retryQueue, id, succeeded)
  /\ LET left == d.pending \ {id}
         others == drains (-) SetToBag({d})
     IN  drains' = IF left # {} THEN others (+) SetToBag({Seen(d, id)})
                   ELSE IF Len(d.rest) > 0 THEN others (+) SetToBag({NextChunk(Seen(d, id))})
                   ELSE others
  /\ outcomes' = Record(id, IF succeeded THEN "ok" ELSE "fail")
  /\ lastCall' = <<"processItem", id, succeeded>>
  /\ UNCHANGED <<storeVars, timers, classifierVars, platformVars, serviceVars>>

RequestSucceeds(d, id) == ProcessItemSettles(d, id, TRUE)
RequestFails(d, id) == ProcessItemSettles(d, id, FALSE)

(***************************************************************************)
(* Classifier inputs and actions                                           *)
(***************************************************************************)
Statuses == {302, 400, 401, 403, 404, 429, 499, 500, 501, 502, 503, 504, 599}

Messages == {MsgNetworkError, MsgTimeoutUpper, MsgTimedOut,
             MsgNetworkTimeout, MsgOther, MsgEmpty}

\* response.data: absent, a string body, or an object with message / error
Datas == {[shape |-> "none", text |-> <<>>],
          [shape |-> "string", text |-> MsgServerText],
          [shape |-> "message", text |-> MsgServerText],
          [shape |-> "error", text |-> MsgServerText]}

Responses == {Null} \cup {<<[status |-> s, data |-> d]>> : s \in Statuses, d \in Datas}

NullError == [kind |-> "null", isAxiosError |-> FALSE, hasRequest |-> FALSE,
              response |-> Null, message |-> <<>>]

Errors ==
  {NullError}
  \cup {[kind |-> "string", isAxiosError |-> FALSE, hasRequest |-> FALSE,
         response |-> Null, message |-> m] : m \in Messages}
  \cup [kind : {"object"}, isAxiosError : BOOLEAN, hasRequest : BOOLEAN,
        response : Responses, message : Messages]

\* descriptors a caller can hand to shouldQueueForRetry
Descriptors ==
  [type : ErrorType, severity : ErrorSeverity, message : {MsgOther},
   userMessage : {""}, statusCode : {Null}, canRetry : BOOLEAN,
   shouldShowNotification : {TRUE}, shouldLog : {TRUE}]

AnalyzeError ==
  /\ enhancedError = Null
  /\ enhancedError' = <<analyzeError(error)>>
  /\ UNCHANGED <<error, otherError, queueDecision, storeVars, queueVars, historyVars,
               platformVars, serviceVars>>

\* a second failure is classified while the first descriptor is still held
AnalyzeOther(e) ==
  /\ enhancedError # Null
  /\ otherError = Null
  /\ otherError' = <<analyzeError(e)>>
  /\ UNCHANGED <<error, enhancedError, queueDecision, storeVars, queueVars, historyVars,
               platformVars, serviceVars>>

\* the policy applied to the descriptor just built
ShouldQueueForRetry ==
  /\ enhancedError # Null
  /\ queueDecision = Null
  /\ queueDecision' = <<[error |-> enhancedError[1],
                         result |-> shouldQueueForRetry(enhancedError[1])]>>
  /\ UNCHANGED <<error, enhancedError, otherError, storeVars, queueVars, historyVars,
               platformVars, serviceVars>>

\* the policy applied to a descriptor a caller built by hand
ShouldQueueForRetryOf(d) ==
  /\ error = NullError
  /\ enhancedError = Null
  /\ queueDecision = Null
  /\ queueDecision' = <<[error |-> d, result |-> shouldQueueForRetry(d)]>>
  /\ UNCHANGED <<error, enhancedError, otherError, storeVars, queueVars, historyVars,
               platformVars, serviceVars>>

(***************************************************************************)
(* Service layer: the HTTP clients and the service functions               *)
(* (src/store/themeStore.ts: transactions 44-390, auth 392-738,            *)
(* perks 740-910)                                                          *)
(***************************************************************************)
TransactionsServices ==
  {"getMerchantTransactions", "getPendingTransactions", "updateTransactionStatus",
   "verifyRedemptionCode", "getTransactionAnalytics", "getTransactionsByDateRange"}

AuthServices ==
  {"signIn", "signUp", "getCurrentUser", "signWithGoogle", "signWithApple",
   "requestResetPassword", "verifyOtp", "resetPassword", "deleteAccount"}

PerksServices == {"getAllPerks", "updatePerksStatus"}

Services == TransactionsServices \cup AuthServices \cup PerksServices

\* the axios instance a service function sends its request on
ClientOf(fn) ==
  IF fn \in AuthServices THEN "auth"
  ELSE IF fn \in PerksServices THEN "perks"
  ELSE "transactions"

\* the frames a failure unwinds, outermost first: getTransactionsByDateRange
\* awaits getMerchantTransactions inside its own try block
CallStack(fn) ==
  IF fn = "getTransactionsByDateRange"
  THEN <<"getTransactionsByDateRange", "getMerchantTransactions">>
  ELSE <<fn>>

\* the service functions that throw an Error of their own inside the try
\* block (no token, account not activated, sign-in without token, invalid code)
ThrowsLocally == {"signIn", "getCurrentUser", "deleteAccount", "verifyRedemptionCode"}

\* the values a failure travels as
AxiosFailure(e) == [tag |-> "AxiosError", error |-> e]
LocalFailure(m) == [tag |-> "Error", message |-> m]
Rejected(d) == [tag |-> "EnhancedError", error |-> d]

\* a plain object: no isAxiosError, response or request property
PlainObject(m) == [kind |-> "plain", isAxiosError |-> FALSE, hasRequest |-> FALSE,
                   response |-> Null, message |-> m]

\* what analyzeError reads of a thrown value: an EnhancedError has a message
\* property, the envelope of createErrorResponse has none
ThrownInput(v) ==
  CASE v.tag = "AxiosError" -> v.error
    [] v.tag = "Error" -> [kind |-> "object", isAxiosError |-> FALSE,
                           hasRequest |-> FALSE, response |-> Null,
                           message |-> v.message]
    [] v.tag = "EnhancedError" -> PlainObject(v.error.message)
    [] v.tag = "ErrorResponse" -> PlainObject(<<>>)

getUserFriendlyErrorInfo(d) ==
  LET info == USER_FRIENDLY_MESSAGES[d.type]
  IN  [title |-> info.title,
       message |-> IF d.userMessage # "" THEN d.userMessage ELSE info.message,
       action |-> info.action,
       canRetry |-> d.canRetry,
       severity |-> d.severity]

\* mutant: errors of the severity LOW are not logged
logErrorNotLow(d, errorId) ==
  IF ~d.shouldLog \/ d.severity = "LOW" THEN <<>>
  ELSE <<[channel |-> IF d.severity = "MEDIUM" THEN "warn" ELSE "error",
          label |-> d.severity, id |-> errorId, type |-> d.type,
          severity |-> d.severity]>>

\* logError: what it writes to the console, as the sequence of entries
\* (channel: console.error, console.warn or console.log; label: the
\* severity named in the prefix '[... ERROR]')
logError(d, errorId) ==
  IF ~d.shouldLog THEN <<>>
  ELSE LET logData == [id |-> errorId, type |-> d.type, severity |-> d.severity]
           Entry(channel, label) ==
             [channel |-> channel, label |-> label, id |-> logData.id,
              type |-> logData.type, severity |-> logData.severity]
       IN  CASE d.severity = "CRITICAL" -> <<Entry("error", "CRITICAL")>>
             [] d.severity = "HIGH" -> <<Entry("error", "HIGH")>>
             [] d.severity = "MEDIUM" -> <<Entry("warn", "MEDIUM")>>
             [] d.severity = "LOW" -> <<Entry("log", "LOW")>>
             [] OTHER -> <<>>

\* createErrorResponse (every generated id is the one value "errorId"):
\* response is the envelope it returns, console what logError wrote
createErrorResponse(v) ==
  LET enhanced == analyzeError(ThrownInput(v))
      errorId == "errorId"
  IN  [response |-> [tag |-> "ErrorResponse", error |-> enhanced,
                     errorId |-> errorId,
                     userInfo |-> getUserFriendlyErrorInfo(enhanced)],
       console |-> logError(enhanced, errorId)]

\* the test of the auth client's response interceptor before addToRetryQueue
InterceptorQueues(client, d) ==
  client = "auth" /\ d.type = "NETWORK_ERROR" /\ d.canRetry

\* error.response?.status of a caught value
ResponseStatusOf(v) ==
  IF v.tag = "AxiosError" /\ v.error.response # Null
  THEN <<v.error.response[1].status>> ELSE Null

\* error.message of a caught value ('' stands for undefined too)
MessageOf(v) ==
  CASE v.tag = "AxiosError" -> v.error.message
    [] v.tag = "Error" -> v.message
    [] v.tag = "EnhancedError" -> v.error.message
    [] v.tag = "ErrorResponse" -> <<>>

\* The catch block of a service function: what it does with the caught
\* value.  result: "throw" with the value thrown, or "return".
Catch(fn, v) ==
  IF fn \in {"getMerchantTransactions", "getPendingTransactions",
             "updateTransactionStatus", "getTransactionAnalytics",
             "getTransactionsByDateRange", "signIn", "resetPassword",
             "getAllPerks", "updatePerksStatus"}
  THEN [result |-> "throw", value |-> createErrorResponse(v).response, built |-> 1,
        console |-> createErrorResponse(v).console]
  ELSE IF fn = "verifyRedemptionCode"
  THEN IF ResponseStatusOf(v) = <<404>>
       THEN [result |-> "return", value |-> v, built |-> 0, console |-> <<>>]
       ELSE [result |-> "throw", value |-> createErrorResponse(v).response,
             built |-> 1, console |-> createErrorResponse(v).console]
  ELSE IF fn = "deleteAccount"
  THEN [result |-> "throw",
        value |-> LocalFailure(IF MessageOf(v) # <<>> THEN MessageOf(v)
                               ELSE MsgFailedToDelete),
        built |-> 0, console |-> <<>>]
  ELSE [result |-> "throw", value |-> v, built |-> 0, console |-> <<>>]

\* no service call is in progress
NoCall == [fn |-> "none", stack |-> <<>>, stage |-> "idle", value |-> Null,
           built |-> 0, httpFailed |-> FALSE, intercepted |-> Null,
           queued |-> FALSE, console |-> <<>>]

\* the failures axios hands to a response interceptor: the request was sent
HttpFailures ==
  [kind : {"object"}, isAxiosError : {TRUE}, hasRequest : {TRUE},
   response : Responses, message : Messages]

\* a screen or store calls a service function, which sends its request
CallService(fn) ==
  /\ service = NoCall
  /\ service' = [NoCall EXCEPT !.fn = fn, !.stack = CallStack(fn), !.stage = "sent"]
  /\ UNCHANGED <<storeVars, queueVars, classifierVars, historyVars, platformVars,
                 perksVars>>

\* The request fails and the response interceptor of the client runs:
\* analyzeError, on the auth client the enqueue of the retry closure under
\* the id method_url_Date.now(), and the rejection with the EnhancedError.
ResponseInterceptor(e, id) ==
  /\ service.stage = "sent"
  /\ UNCHANGED perksVars
  /\ LET enhancedErr == analyzeError(e)
         queues == InterceptorQueues(ClientOf(service.fn), enhancedErr)
     IN  /\ service' = [service EXCEPT !.stage = "rejected",
                                       !.value = <<Rejected(enhancedErr)>>,
                                       !.httpFailed = TRUE,
                                       !.intercepted = <<enhancedErr>>,
                                       !.queued = queues]
         /\ IF queues
            THEN addToRetryQueue(id, "retryRequest")
            ELSE UNCHANGED <<storeVars, queueVars, classifierVars, historyVars,
                             platformVars>>

\* the request succeeds and the service function returns its data
ServiceReturns ==
  /\ service.stage = "sent"
  /\ service' = [service EXCEPT !.stage = "returned", !.stack = <<>>]
  /\ UNCHANGED <<storeVars, queueVars, classifierVars, historyVars, platformVars,
                 perksVars>>

\* the service function throws an Error of its own inside its try block
ServiceThrows ==
  /\ service.stage = "sent"
  /\ service.fn \in ThrowsLocally
  /\ service' = [service EXCEPT !.stage = "rejected",
                                !.value = <<LocalFailure(MsgNoAccessToken)>>]
  /\ UNCHANGED <<storeVars, queueVars, classifierVars, historyVars, platformVars,
                 perksVars>>

\* the catch block of the innermost frame that is still unwinding runs
ServiceCatch ==
  /\ service.stage = "rejected"
  /\ LET frame == service.stack[Len(service.stack)]
         outer == SubSeq(service.stack, 1, Len(service.stack) - 1)
         caught == Catch(frame, service.value[1])
     IN  service' =
           [service EXCEPT
              !.stack = outer,
              !.value = <<caught.value>>,
              !.built = service.built + caught.built,
              !.console = service.console \o caught.console,
              !.stage = IF caught.result = "return" THEN "returned"
                        ELSE IF outer = <<>> THEN "thrown"
                        ELSE "rejected"]
  /\ UNCHANGED <<storeVars, queueVars, classifierVars, historyVars, platformVars,
                 perksVars>>

\* the caller has the result or the failure; the next call can begin
ServiceDone ==
  /\ service.stage \in {"returned", "thrown"}
  /\ service' = NoCall
  /\ UNCHANGED <<storeVars, queueVars, classifierVars, historyVars, platformVars,
                 perksVars>>

\* the failures a replayed request meets: no response with a network or a
\* timeout message, or a 500 response
ReplayFailures ==
  [kind : {"object"}, isAxiosError : {TRUE}, hasRequest : {TRUE},
   response : {Null, <<[status |-> 500, data |-> [shape |-> "none", text |-> <<>>]]>>},
   message : {MsgNetworkError, MsgTimedOut}]

\* The operation of a queued auth request, () => api.request(error.config),
\* fails with e in the drain d: the response interceptor of the auth client
\* runs again (enqueueing a new closure under newId, the id built from a
\* later Date.now(), when the failure is a retryable NETWORK_ERROR) and
\* rejects, and the catch block of processItem raises the count of id.
RetryRequestFails(d, id, e, newId) ==
  /\ BagIn(d, drains)
  /\ id \in d.pending
  /\ id \in DOMAIN d.snapshot
  /\ d.snapshot[id] = "retryRequest"
  /\ LET enhancedErr == analyzeError(e)
         queues == InterceptorQueues("auth", enhancedErr)
         left == d.pending \ {id}
         others == drains (-) SetToBag({d})
     IN  /\ queues => CountsOf(retryQueue, newId) = <<>>
         /\ retryQueue' =
              FailedQueue(IF queues THEN AddedQueue(retryQueue, newId, "retryRequest")
                          ELSE retryQueue, id)
         /\ drains' = IF left # {} THEN others (+) SetToBag({Seen(d, id)})
                      ELSE IF Len(d.rest) > 0
                           THEN others (+) SetToBag({NextChunk(Seen(d, id))})
                      ELSE others
         /\ outcomes' = [i \in DOMAIN outcomes |->
                           IF i = id THEN Append(outcomes[i], "fail")
                           ELSE IF i = newId /\ queues THEN <<>>
                           ELSE outcomes[i]]
  /\ lastCall' = <<"processItem", id, FALSE>>
  /\ UNCHANGED <<storeVars, timers, classifierVars, platformVars, serviceVars>>

\* createErrorResponse applied to the failure drawn for the classifier
CreateErrorResponse ==
  /\ service = NoCall
  /\ LET made == createErrorResponse(AxiosFailure(error))
     IN  service' = [NoCall EXCEPT !.fn = "createErrorResponse",
                                   !.stage = "returned",
                                   !.value = <<made.response>>,
                                   !.built = 1,
                                   !.console = made.console]
  /\ UNCHANGED <<storeVars, queueVars, classifierVars, historyVars, platformVars,
                 perksVars>>

(***************************************************************************)
(* Perks store (usePerksStore): orders and redemption                      *)
(***************************************************************************)
MaxCalls == 2      \* verifyRedemption calls, one per caller

Callers == 1..MaxCalls

\* mockOrders: id, redemptionCode and status of each order
mockOrders ==
  <<[id |-> "ORD-001", redemptionCode |-> "QR123ABC456", status |-> "completed"],
    [id |-> "ORD-002", redemptionCode |-> "QR789XYZ012", status |-> "pending"],
    [id |-> "ORD-003", redemptionCode |-> "QR345DEF678", status |-> "completed"]>>

\* the codes a merchant scans: those of the orders and one of no order
RedemptionCodes == {"QR123ABC456", "QR789XYZ012", "QR345DEF678", "QR000000000"}

MsgInvalidCode == "Invalid or already used redemption code"

\* a caller that has not called verifyRedemption
NoVerify == [stage |-> "idle", code |-> "", order |-> Null, result |-> Null]

\* get().orders.find(o => o.redemptionCode === redemptionCode &&
\*                         o.status === 'pending'): <<>> or <<order>>
FindPending(redemptionCode) ==
  LET Matches(o) == o.redemptionCode = redemptionCode /\ o.status = "pending"
      found == SelectSeq(orders, Matches)
  IN  IF found = <<>> THEN Null ELSE <<found[1]>>

\* orders.map(order => order.id === orderId ? { ...order, status } : order)
WithStatus(orderId, status) ==
  [i \in DOMAIN orders |->
     IF orders[i].id = orderId THEN [orders[i] EXCEPT !.status = status]
     ELSE orders[i]]

PerksFrame ==
  UNCHANGED <<storeVars, queueVars, classifierVars, historyVars, platformVars, service>>

\* verifyRedemption up to its first await (the simulated API call)
VerifyRedemption(c, redemptionCode) ==
  /\ calls[c].stage = "idle"
  /\ isLoading' = TRUE
  /\ perksError' = Null
  /\ calls' = [calls EXCEPT ![c] = [NoVerify EXCEPT !.stage = "verifying",
                                                    !.code = redemptionCode]]
  /\ UNCHANGED orders
  /\ PerksFrame

\* The timer of verifyRedemption fires: the order is looked up; when it is
\* found, updateOrderStatus runs up to its own await, else the call
\* returns null with the error set.
VerifyRedemptionResumes(c) ==
  /\ calls[c].stage = "verifying"
  /\ LET order == FindPending(calls[c].code)
     IN  IF order # Null
         THEN /\ isLoading' = TRUE
              /\ perksError' = Null
              /\ calls' = [calls EXCEPT ![c].stage = "updating", ![c].order = order]
         ELSE /\ isLoading' = FALSE
              /\ perksError' = <<MsgInvalidCode>>
              /\ calls' = [calls EXCEPT ![c].stage = "returned", ![c].result = Null]
  /\ UNCHANGED orders
  /\ PerksFrame

\* The timer of updateOrderStatus fires: the order is marked completed and
\* verifyRedemption returns the order it had found.
UpdateOrderStatusResumes(c) ==
  /\ calls[c].stage = "updating"
  /\ orders' = WithStatus(calls[c].order[1].id, "completed")
  /\ isLoading' = FALSE
  /\ calls' = [calls EXCEPT ![c].stage = "returned", ![c].result = calls[c].order]
  /\ UNCHANGED perksError
  /\ PerksFrame

(***************************************************************************)
(* Specifications                                                          *)
(***************************************************************************)
InitOthers(queue, tracked, failure) ==
  /\ isConnected = TRUE
  /\ isInternetReachable = Null
  /\ connectionType = Null
  /\ isInitialized = FALSE
  /\ lastConnectedAt = Null
  /\ isSlowConnection = FALSE
  /\ connectionQuality = "excellent"
  /\ retryQueue = queue
  /\ timers = 0
  /\ drains = EmptyBag
  /\ error = failure
  /\ enhancedError = Null
  /\ otherError = Null
  /\ queueDecision = Null
  /\ outcomes = [i \in tracked |-> <<>>]
  /\ lastCall = <<"create">>
  /\ listeners = 0
  /\ fetches = 0
  /\ service = NoCall

\* the state after create() of every store
InitWith(queue, tracked, failure) ==
  /\ InitOthers(queue, tracked, failure)
  /\ orders = <<>>
  /\ isLoading = FALSE
  /\ perksError = Null
  /\ calls = [c \in Callers |-> NoVerify]

\* the perks store holding the orders fetchOrders loads (or the persisted
\* orders after rehydration)
InitPerks ==
  /\ InitOthers(<<>>, {}, NullError)
  /\ orders = mockOrders
  /\ isLoading = FALSE
  /\ perksError = Null
  /\ calls = [c \in Callers |-> NoVerify]

\* the state after create(); no replay history is kept
Init == InitWith(<<>>, {}, NullError)

\* the same state, with the replay history of every id kept
InitSeq == InitWith(<<>>, Ids, NullError)

\* the platform reports connected / disconnected
Connectivity(connected) == SetConnectionStatus(connected, Null, Null)

QueueNext(limit, ops) ==
  \/ \E c \in BOOLEAN : Connectivity(c)
  \/ \E id \in Ids, op \in ops : AddToRetryQueue(id, op)
  \/ \E id \in Ids : RemoveFromRetryQueue(id)
  \/ ClearRetryQueue
  \/ ProcessRetryQueue(limit)
  \/ ReconnectTimer(limit)
  \/ \E d \in ActiveDrains : \E id \in d.pending : RequestSucceeds(d, id)
  \/ \E d \in ActiveDrains : \E id \in d.pending : RequestFails(d, id)

\* the store with overlapping drains
Next == QueueNext(MaxDrains, {"opA"})

Spec == Init /\ [][Next]_vars

\* the store when each drain returns before the next one is called, without
\* replay history
NextQueue == QueueNext(1, {"opA"})

SpecQueue == Init /\ [][NextQueue]_vars

\* the same, with two operations and the replay history of every id
NextSeq == QueueNext(1, Operations)

SpecSeq == InitSeq /\ [][NextSeq]_vars

\* Drains of a queue that callers filled before: the entries 1..n, each
\* enqueued once, so that a drain has more than one chunk.
Prefilled(n) == [i \in 1..n |-> NewItem(i, "opA")]

InitBatch == \E n \in 0..MaxQueued : InitWith(Prefilled(n), {}, NullError)

NextBatch ==
  \/ \E c \in BOOLEAN : Connectivity(c)
  \/ ProcessRetryQueue(1)
  \/ ReconnectTimer(1)
  \/ \E d \in ActiveDrains : \E id \in d.pending : RequestSucceeds(d, id)
  \/ \E d \in ActiveDrains : \E id \in d.pending : RequestFails(d, id)

SpecBatch == InitBatch /\ [][NextBatch]_vars

\* the same drains on a shorter queue, with the replay history of every
\* entry kept
InitIsolation == \E n \in 1..MaxIsolated : InitWith(Prefilled(n), 1..n, NullError)

SpecIsolation == InitIsolation /\ [][NextBatch]_vars

\* Drains that overlap (processRetryQueue is called while earlier calls are
\* in progress) on a queue that callers filled before, with the replay
\* history of every entry kept; the store stays connected.
InitRace == \E n \in 1..MaxRaced : InitWith(Prefilled(n), 1..n, NullError)

NextRace ==
  \/ ProcessRetryQueue(MaxDrains)
  \/ \E d \in ActiveDrains : \E id \in d.pending : RequestSucceeds(d, id)
  \/ \E d \in ActiveDrains : \E id \in d.pending : RequestFails(d, id)

SpecRace == InitRace /\ [][NextRace]_vars

\* Drains of a queue that callers filled before, while the platform reports
\* changes of connection and of internet reachability.
InitReach == \E n \in 1..MaxIsolated : InitWith(Prefilled(n), {}, NullError)

NextReach ==
  \/ \E c \in BOOLEAN, r \in Nullable : SetConnectionStatus(c, r, Null)
  \/ ProcessRetryQueue(1)
  \/ ReconnectTimer(1)
  \/ \E d \in ActiveDrains : \E id \in d.pending : RequestSucceeds(d, id)
  \/ \E d \in ActiveDrains : \E id \in d.pending : RequestFails(d, id)

SpecReach == InitReach /\ [][NextReach]_vars

\* The auth service functions with the retry queue their interceptor
\* fills, and the drains that replay the queued requests.
InitReplay == InitWith(<<>>, {0}, NullError)

NextReplay ==
  \/ \E fn \in AuthServices : CallService(fn)
  \/ \E e \in ReplayFailures, id \in Ids : ResponseInterceptor(e, id)
  \/ ServiceReturns
  \/ ServiceCatch
  \/ ServiceDone
  \/ ProcessRetryQueue(1)
  \/ \E d \in ActiveDrains : \E id \in d.pending : RequestSucceeds(d, id)
  \/ \E d \in ActiveDrains : \E id \in d.pending :
       \E e \in ReplayFailures, newId \in Ids : RetryRequestFails(d, id, e, newId)

SpecReplay == InitReplay /\ [][NextReplay]_vars

\* verifyRedemption calls of several callers on the perks store, in any
\* interleaving of their awaits
NextPerks ==
  \/ \E c \in Callers, code \in RedemptionCodes : VerifyRedemption(c, code)
  \/ \E c \in Callers : VerifyRedemptionResumes(c)
  \/ \E c \in Callers : UpdateOrderStatusResumes(c)

SpecPerks == InitPerks /\ [][NextPerks]_vars

\* Callers enqueue and drain while the store is connected, each drain
\* returning before the next is called; the ledger of every drain is kept.
InitReplace == InitWith(<<>>, 0..MaxIds, NullError)

NextReplace ==
  \/ \E id \in Ids, op \in Operations : AddToRetryQueue(id, op)
  \/ ProcessRetryQueue(1)
  \/ \E d \in ActiveDrains : \E id \in d.pending : RequestSucceeds(d, id)
  \/ \E d \in ActiveDrains : \E id \in d.pending : RequestFails(d, id)

SpecReplace == InitReplace /\ [][NextReplace]_vars

\* The same drains with the ledger of every drain kept, when every
\* operation in flight settles in the end and the event loop then resumes
\* its processItem.
InitDrain == \E n \in 1..MaxIsolated : InitWith(Prefilled(n), 0..n, NullError)

Settles(id) ==
  \E d \in ActiveDrains : RequestSucceeds(d, id) \/ RequestFails(d, id)

SpecDrain ==
  /\ InitDrain
  /\ [][NextBatch]_vars
  /\ \A id \in 1..MaxIsolated : WF_vars(Settles(id))

\* the connectivity monitor: the store's connectivity methods under direct
\* calls and under the platform's notifications
NextNet ==
  \/ \E c \in BOOLEAN, r \in Nullable, t \in ConnectionTypes : SetConnectionStatus(c, r, t)
  \/ \E q \in Qualities : SetConnectionQuality(q)
  \/ Initialize
  \/ \E state \in NetInfoStates : NetInfoListener(state)
  \/ \E state \in NetInfoStates : NetInfoFetchResolves(state)
  \/ NetInfoFetchRejects
  \/ ReconnectTimer(1)

SpecNet == Init /\ [][NextNet]_vars

\* the service functions, one call at a time
NextService ==
  \/ \E fn \in Services : CallService(fn)
  \/ \E e \in HttpFailures, id \in Ids : ResponseInterceptor(e, id)
  \/ ServiceReturns
  \/ ServiceThrows
  \/ ServiceCatch
  \/ ServiceDone

SpecService == Init /\ [][NextService]_vars

\* the classifier, applied to one failure drawn from the input set
InitClassify == \E e \in Errors : InitWith(<<>>, {}, e)

NextClassify ==
  \/ AnalyzeError
  \/ CreateErrorResponse
  \/ ShouldQueueForRetry
  \/ \E d \in Descriptors : ShouldQueueForRetryOf(d)

SpecClassify == InitClassify /\ [][NextClassify]_vars

NextClassifyTwice ==
  \/ AnalyzeError
  \/ \E e \in Errors : AnalyzeOther(e)

SpecClassifyTwice == InitClassify /\ [][NextClassifyTwice]_vars

(***************************************************************************)
(* Properties                                                              *)
(***************************************************************************)
Present(id) == \E i \in DOMAIN retryQueue : retryQueue[i].id = id

\* some entry is queued under id, and every such entry has the count n
QueuedWithCount(id, n) ==
  /\ Present(id)
  /\ \A i \in DOMAIN retryQueue : retryQueue[i].id = id => retryQueue[i].retryCount = n

Fails(n) == [i \in 1..n |-> "fail"]

\* C1 - Retry eviction.  With drains that do not overlap, an entry whose
\* replays since its enqueue failed once is queued with retryCount 1, one
\* whose replays failed twice is queued with retryCount 2, and one whose
\* replays failed three times is no longer in the queue.
RetryEviction ==
  \A id \in DOMAIN outcomes :
    /\ outcomes[id] = Fails(1) => QueuedWithCount(id, 1)
    /\ outcomes[id] = Fails(2) => QueuedWithCount(id, 2)
    /\ outcomes[id] = Fails(3) => ~Present(id)

EvictedAfterThreeFailures ==
  \E id \in DOMAIN outcomes : outcomes[id] = Fails(3) /\ ~Present(id)

\* no two entries of the queue have the same id
UniqueIds ==
  \A i, j \in DOMAIN retryQueue : retryQueue[i].id = retryQueue[j].id => i = j

\* a step of addToRetryQueue(id, op) leaves one entry for id: count 0, op
EnqueueReplaces ==
  lastCall'[1] = "addToRetryQueue" =>
    LET id == lastCall'[2]
        op == lastCall'[3]
        entries == {i \in DOMAIN retryQueue' : retryQueue'[i].id = id}
    IN  /\ Cardinality(entries) = 1
        /\ \A i \in entries : /\ retryQueue'[i].retryCount = 0
                              /\ retryQueue'[i].request = op

\* C2 - Queue uniqueness and replacement.  The queue never holds two
\* entries with the same id, and a step of addToRetryQueue(id, op) leaves
\* exactly one entry for id, with retryCount 0 and the operation op,
\* whatever entry was queued under id before.
QueueUniquenessAndReplacement == []UniqueIds /\ [][EnqueueReplaces]_vars

\* an entry that had failed replays was replaced by one with another operation
ReplacedRetriedEntry ==
  /\ lastCall[1] = "addToRetryQueue"
  /\ lastCall[4] = <<2>>
  /\ \E i \in DOMAIN retryQueue :
       /\ retryQueue[i].id = lastCall[2]
       /\ retryQueue[i].request = "opB"
       /\ retryQueue[i].retryCount = 0

\* C3 - Concurrency bound.  No processRetryQueue call ever has more than 3
\* of its operations in flight, whatever the length of the queue it drains
\* and whatever the order in which the operations settle.
ConcurrencyBound ==
  \A d \in ActiveDrains : Cardinality(d.pending) <= 3

\* a full chunk is in flight while more than a chunk of entries waits
FullChunkInFlight ==
  \E d \in ActiveDrains : Cardinality(d.pending) = 3 /\ Len(d.rest) > 3

\* C4 - Fail-then-succeed.  With drains that do not overlap, an entry whose
\* operation fails twice and then succeeds is queued with retryCount i after
\* its i-th failing drain (i = 1, 2) and is absent after the succeeding one.
FailThenSucceed ==
  \A id \in DOMAIN outcomes :
    /\ \A i \in 1..2 : outcomes[id] = Fails(i) => QueuedWithCount(id, i)
    /\ outcomes[id] = Append(Fails(2), "ok") => ~Present(id)

SucceededAfterTwoFailures ==
  \E id \in DOMAIN outcomes : outcomes[id] = <<"fail", "fail", "ok">> /\ ~Present(id)

\* a processRetryQueue step taken while offline or with an empty queue
DrainNoOp ==
  (lastCall'[1] = "processRetryQueue" /\ (~isConnected \/ Len(retryQueue) = 0)) =>
    (retryQueue' = retryQueue /\ drains' = drains)

\* C5 - A processRetryQueue call made while isConnected is false, or while
\* the queue is empty, invokes no operation (no call in progress changes,
\* none is added) and leaves the queue as it was.
DrainIsNoOpWhenOfflineOrEmpty == [][DrainNoOp]_vars

\* the drain was called while disconnected with entries queued
DrainCalledOffline ==
  /\ lastCall[1] = "processRetryQueue"
  /\ ~isConnected
  /\ Len(retryQueue) > 0
  /\ drains = EmptyBag

\* C6 - shouldQueueForRetry(d) is true exactly when d.canRetry is true and
\* d.type is NETWORK_ERROR, TIMEOUT_ERROR or SERVER_ERROR; it is false for
\* every descriptor of type RATE_LIMIT_ERROR.
QueuePolicy ==
  queueDecision # Null =>
    LET d == queueDecision[1].error
        queued == queueDecision[1].result
    IN  /\ queued <=> (d.canRetry /\ d.type \in {"NETWORK_ERROR", "TIMEOUT_ERROR",
                                                 "SERVER_ERROR"})
        /\ d.type = "RATE_LIMIT_ERROR" => ~queued

\* the descriptor of a 429 response: retryable, MEDIUM, and not queued
RateLimitNotQueued ==
  /\ queueDecision # Null
  /\ enhancedError # Null
  /\ queueDecision[1].error = enhancedError[1]
  /\ enhancedError[1].statusCode = <<429>>
  /\ enhancedError[1].type = "RATE_LIMIT_ERROR"
  /\ enhancedError[1].severity = "MEDIUM"
  /\ enhancedError[1].canRetry
  /\ ~queueDecision[1].result

\* C7 (as stated) - canRetry is true only for the types NETWORK_ERROR,
\* TIMEOUT_ERROR, SERVER_ERROR and RATE_LIMIT_ERROR.
RetryableOnlyForFourKinds ==
  enhancedError # Null =>
    (enhancedError[1].canRetry =>
       enhancedError[1].type \in {"NETWORK_ERROR", "TIMEOUT_ERROR", "SERVER_ERROR",
                                  "RATE_LIMIT_ERROR"})

\* C7 (amended) - canRetry is true only for the types NETWORK_ERROR,
\* TIMEOUT_ERROR, SERVER_ERROR, RATE_LIMIT_ERROR and UNKNOWN_ERROR; for every
\* other type it is false.
RetryableOnlyForFiveKinds ==
  enhancedError # Null =>
    (enhancedError[1].canRetry =>
       enhancedError[1].type \in {"NETWORK_ERROR", "TIMEOUT_ERROR", "SERVER_ERROR",
                                  "RATE_LIMIT_ERROR", "UNKNOWN_ERROR"})

\* an unclassified non-HTTP failure is UNKNOWN_ERROR and retryable; a 401 is not
UnknownIsRetryable ==
  /\ enhancedError # Null
  /\ error.kind = "object" /\ ~IsAxiosLike(error) /\ error.message = MsgOther
  /\ enhancedError[1].type = "UNKNOWN_ERROR"
  /\ enhancedError[1].canRetry

\* C8 - Severity is a function of kind: two descriptors that analyzeError
\* returned with the same type have the same severity.
SeverityFunctionOfKind ==
  (enhancedError # Null /\ otherError # Null) =>
    (enhancedError[1].type = otherError[1].type =>
       enhancedError[1].severity = otherError[1].severity)

\* two different failures (a 400 and another 4xx) got the same type
SameKindFromDifferentFailures ==
  /\ enhancedError # Null /\ otherError # Null
  /\ enhancedError[1].statusCode = <<400>>
  /\ otherError[1].statusCode = <<499>>
  /\ enhancedError[1].type = otherError[1].type

\* the (type, severity, canRetry) that C9 gives for a status >= 400
StatusClass(status) ==
  CASE status = 400 -> <<"VALIDATION_ERROR", "LOW", FALSE>>
    [] status = 401 -> <<"AUTHENTICATION_ERROR", "HIGH", FALSE>>
    [] status = 403 -> <<"AUTHORIZATION_ERROR", "MEDIUM", FALSE>>
    [] status = 404 -> <<"NOT_FOUND_ERROR", "LOW", FALSE>>
    [] status = 429 -> <<"RATE_LIMIT_ERROR", "MEDIUM", TRUE>>
    [] status >= 500 -> <<"SERVER_ERROR", "HIGH", TRUE>>
    [] OTHER -> <<"VALIDATION_ERROR", "LOW", FALSE>>

\* C9 - Status mapping.  A failure that carries a response with a status
\* >= 400 is classified by that status alone: 400, 401, 403, 404 and 429 as
\* listed, every status >= 500 as SERVER_ERROR, every other one as
\* VALIDATION_ERROR, whatever its message and whether or not it carries a
\* request.
StatusMapping ==
  (enhancedError # Null /\ error.kind = "object" /\ error.response # Null
     /\ error.response[1].status >= 400) =>
    <<enhancedError[1].type, enhancedError[1].severity, enhancedError[1].canRetry>>
      = StatusClass(error.response[1].status)

\* a 5xx outside the listed ones, with a request and a network-like message
UnlistedServerStatus ==
  /\ enhancedError # Null
  /\ error.response # Null /\ error.response[1].status = 599
  /\ error.hasRequest /\ error.message = MsgNetworkTimeout
  /\ enhancedError[1].type = "SERVER_ERROR"

\* the failures C10 is about: a request, no response, "timeout" in the message
Timeout == <<"t", "i", "m", "e", "o", "u", "t">>

UnansweredTimeout ==
  /\ error.kind = "object" /\ error.hasRequest /\ error.response = Null
  /\ includes(toLowerCase(error.message), Timeout)

MentionsNetwork(message) ==
  \E k \in DOMAIN NETWORK_ERROR_PATTERNS :
    includes(toLowerCase(message), NETWORK_ERROR_PATTERNS[k])

\* C10 (as stated) - every failure with a request and no response whose
\* message contains "timeout" in any letter case is a TIMEOUT_ERROR.
TimeoutAlwaysTimeoutError ==
  (enhancedError # Null /\ UnansweredTimeout) =>
    enhancedError[1].type = "TIMEOUT_ERROR"

\* C10 (amended) - such a failure is a TIMEOUT_ERROR when its message
\* contains none of the network-indicative substrings, and a NETWORK_ERROR
\* when it contains one.
TimeoutUnlessNetworkPattern ==
  (enhancedError # Null /\ UnansweredTimeout) =>
    enhancedError[1].type =
      (IF MentionsNetwork(error.message) THEN "NETWORK_ERROR" ELSE "TIMEOUT_ERROR")

\* an upper-case TIMEOUT is a TIMEOUT_ERROR
UpperCaseTimeout ==
  /\ enhancedError # Null
  /\ UnansweredTimeout
  /\ error.message = MsgTimeoutUpper
  /\ enhancedError[1].type = "TIMEOUT_ERROR"

\* C11 (as stated) - in every reachable state of the connectivity store,
\* connectionQuality is 'offline' whenever isConnected is false or
\* isInternetReachable is false.
OfflineQualityWhenUnreachable ==
  (~isConnected \/ isInternetReachable = <<FALSE>>) => connectionQuality = "offline"

\* C12 - determineConnectionQuality(isConnected, isInternetReachable,
\* connectionType) is 'offline' if and only if isConnected is false or
\* isInternetReachable is false, for every connection type; the result for
\* (false, null, "wifi") is 'offline'.  The result is read where
\* setConnectionStatus stores it, next to the arguments it stores.
OfflineIffUnreachable ==
  lastCall[1] = "setConnectionStatus" =>
    /\ connectionQuality = "offline" <=>
          (~isConnected \/ isInternetReachable = <<FALSE>>)
    /\ (~isConnected /\ isInternetReachable = Null /\ connectionType = TypeWifi)
          => connectionQuality = "offline"

\* setConnectionStatus(false, null, "wifi") stored 'offline'
OfflineOnWifi ==
  /\ lastCall = <<"setConnectionStatus", FALSE>>
  /\ isInternetReachable = Null
  /\ connectionType = TypeWifi
  /\ connectionQuality = "offline"

\* a step of initialize(): the first call registers one listener, issues one
\* fetch and sets isInitialized; a later call changes none of the three
InitializeStep ==
  lastCall'[1] = "initialize" =>
    /\ isInitialized'
    /\ IF isInitialized
       THEN listeners' = listeners /\ fetches' = fetches
       ELSE listeners' = listeners + 1 /\ fetches' = fetches + 1
    /\ UNCHANGED <<isConnected, isInternetReachable, connectionType, lastConnectedAt,
                   isSlowConnection, connectionQuality, retryQueue, timers, drains>>

\* C13 - initialize() is idempotent: the first call registers one
\* connectivity listener, issues one initial fetch and sets isInitialized;
\* every later call registers no listener, issues no fetch and changes no
\* store state, so that at most one listener is ever registered.
InitializeIdempotent == [](listeners <= 1) /\ [][InitializeStep]_vars

\* initialize() was called again after the initial fetch had settled
InitializedTwice ==
  /\ lastCall = <<"initialize">>
  /\ isInitialized
  /\ listeners = 1
  /\ fetches = 0

\* the entries of queue whose id is not id, in their order, make up result
RemainderOf(queue, id, result) ==
  LET kept == {i \in DOMAIN queue : queue[i].id # id}
  IN  /\ Len(result) = Cardinality(kept)
      /\ \A i \in kept : result[Cardinality({j \in kept : j <= i})] = queue[i]

\* a step of removeFromRetryQueue(id) or of clearRetryQueue()
DequeueStep ==
  /\ lastCall'[1] = "removeFromRetryQueue" =>
        /\ RemainderOf(retryQueue, lastCall'[2], retryQueue')
        /\ ~Present(lastCall'[2]) => retryQueue' = retryQueue
        /\ storeVars' = storeVars
  /\ lastCall'[1] = "clearRetryQueue" =>
        /\ retryQueue' = <<>>
        /\ storeVars' = storeVars

\* C14 - removeFromRetryQueue(id) removes the entry with that id if present
\* and leaves every other entry, their order and their retryCounts
\* unchanged; when no entry has that id the queue is unchanged;
\* clearRetryQueue() leaves the queue empty; neither changes a connectivity
\* field.
DequeueFrame == [][DequeueStep]_vars

\* an entry was removed from in front of an entry that has failed replays
RemovedInFrontOfRetried ==
  /\ lastCall[1] = "removeFromRetryQueue"
  /\ lastCall[3] = <<0>>
  /\ Len(retryQueue) = 1
  /\ retryQueue[1].id > lastCall[2]
  /\ retryQueue[1].retryCount = 2

\* C15 (as stated) - every failure of a service-layer network call has
\* passed through createErrorResponse exactly once when it reaches the
\* caller.
ErrorResponseBuiltOnce ==
  (service.stage = "thrown" /\ service.httpFailed) => service.built = 1

\* d has the first 3 of items in flight (all of them when there are fewer)
\* and the others waiting, in the order of items
FirstBatchInFlight(items, d) ==
  LET n == IF Len(items) < 3 THEN Len(items) ELSE 3
  IN  /\ d.pending = {items[i].id : i \in 1..n}
      /\ Len(d.rest) = Len(items) - n
      /\ \A i \in 1..(Len(items) - n) : d.rest[i] = items[i + n]

\* a step of a drain that runs alone: its start, or the settle of one of its
\* operations
BatchStep ==
  drains' # drains =>
    /\ ActiveDrains = {} =>
          \A d \in ActiveDrains' :
            FirstBatchInFlight([i \in DOMAIN retryQueue |->
                                  [id |-> retryQueue[i].id,
                                   request |-> retryQueue[i].request]], d)
    /\ \A d \in ActiveDrains :
          IF Cardinality(d.pending) > 1
          THEN \E id \in d.pending :
                 ActiveDrains' = {[d EXCEPT !.pending = d.pending \ {id}]}
          ELSE IF d.rest = <<>> THEN ActiveDrains' = {}
          ELSE \A d2 \in ActiveDrains' : FirstBatchInFlight(d.rest, d2)

\* C16 - Batch ordering.  Within one processRetryQueue call the entries
\* present at its start are split, in queue order, into consecutive batches
\* of 3: the call invokes the first 3, and invokes the next 3 of the
\* waiting entries only in the step in which the last operation of the
\* batch in flight settles (succeeds or fails).
BatchOrdering == [][BatchStep]_vars

\* the second batch of a drain of 7 entries is in flight
SecondBatchInFlight ==
  \E d \in ActiveDrains :
    /\ d.pending = {4, 5, 6}
    /\ Len(d.rest) = 1
    /\ d.rest[1].id = 7
    /\ lastCall[1] = "processItem"

\* the number of replays of the entry that was replayed most often
Rounds ==
  CHOOSE k \in 0..MaxRetries :
    /\ \A id \in DOMAIN outcomes : Len(outcomes[id]) <= k
    /\ \E id \in DOMAIN outcomes : Len(outcomes[id]) = k

\* C17 - Failure isolation.  In drains that do not overlap, of entries that
\* are not enqueued again, each entry's state depends on its own outcomes
\* only: an entry whose operation succeeded is absent, one whose operation
\* failed f times (f < 3) is queued with retryCount f, one that failed 3
\* times is absent; and when a drain has returned, every entry still queued
\* has been invoked in every drain so far, whatever the outcomes of its
\* siblings and of the earlier batches.
FailureIsolation ==
  /\ \A id \in DOMAIN outcomes :
        LET o == outcomes[id]
            failed == \A i \in DOMAIN o : o[i] = "fail"
        IN  IF failed /\ Len(o) < 3 THEN QueuedWithCount(id, Len(o))
            ELSE ~Present(id)
  /\ drains = EmptyBag =>
        \A id \in DOMAIN outcomes : Present(id) => Len(outcomes[id]) = Rounds

\* a drain of two batches has returned: entries 1 and 4 failed, 2 and 3
\* succeeded
MixedOutcomesInTwoBatches ==
  /\ drains = EmptyBag
  /\ DOMAIN outcomes = 1..4
  /\ outcomes[1] = <<"fail">> /\ QueuedWithCount(1, 1)
  /\ outcomes[2] = <<"ok">> /\ ~Present(2)
  /\ outcomes[3] = <<"ok">> /\ ~Present(3)
  /\ outcomes[4] = <<"fail">> /\ QueuedWithCount(4, 1)

\* the ids of the operations a drain has in flight or waiting
DrainIds(d) == d.pending \cup {d.rest[i].id : i \in DOMAIN d.rest}

\* a step taken while a drain is in progress: the drain takes up no entry,
\* and the settle of one operation leaves the entries of other ids as they are
DrainStep ==
  /\ ActiveDrains # {} =>
        \A d2 \in ActiveDrains' :
          DrainIds(d2) \subseteq UNION {DrainIds(d) : d \in ActiveDrains}
  /\ lastCall'[1] = "processItem" =>
        \A i \in DOMAIN retryQueue :
          retryQueue[i].id # lastCall'[2] =>
            \E j \in DOMAIN retryQueue' : retryQueue'[j] = retryQueue[i]

\* an entry that no drain in progress holds and that has no replay outcome
\* since its enqueue has retryCount 0
NotYetReplayed ==
  \A id \in DOMAIN outcomes :
    (/\ Present(id)
     /\ outcomes[id] = <<>>
     /\ \A d \in ActiveDrains : id \notin DrainIds(d)) => QueuedWithCount(id, 0)

\* C18 - An entry added by addToRetryQueue under a new id while a drain is
\* in progress is not invoked by that drain (a drain never takes up an id
\* it did not hold), it stays in the queue with retryCount 0, and the
\* success and failure updates of the drain in progress do not drop it.
LateEntryWaits == []NotYetReplayed /\ [][DrainStep]_vars

\* a drain of entry 1 has returned; entry 2, enqueued while it ran, is
\* queued behind it and has not been replayed
LateEntryStillQueued ==
  /\ lastCall = <<"processItem", 1, FALSE>>
  /\ drains = EmptyBag
  /\ outcomes[2] = <<>>
  /\ Len(retryQueue) = 2
  /\ retryQueue[1].id = 1 /\ retryQueue[1].retryCount = 1
  /\ retryQueue[2].id = 2 /\ retryQueue[2].retryCount = 0

\* a step of setConnectionStatus, or of the delayed drain it scheduled
ReconnectStep ==
  /\ lastCall'[1] = "setConnectionStatus" =>
        timers' = IF ~isConnected /\ isConnected' THEN timers + 1 ELSE timers
  /\ (lastCall' = <<"processRetryQueue", "timer">> /\ timers' = timers - 1
      /\ ~isConnected) =>
        (drains' = drains /\ retryQueue' = retryQueue)

\* C19 - Reconnect trigger.  Each setConnectionStatus call that changes
\* isConnected from false to true schedules exactly one delayed
\* processRetryQueue; a call that leaves isConnected true, or sets it false,
\* schedules none; if the store is disconnected again when the delayed
\* drain fires, that drain invokes no operation.
ReconnectTrigger == [][ReconnectStep]_vars

\* the delayed drain fired after the store was disconnected again, with
\* entries queued
DelayedDrainFiredOffline ==
  /\ lastCall = <<"processRetryQueue", "timer">>
  /\ ~isConnected
  /\ lastConnectedAt # Null
  /\ Len(retryQueue) > 0
  /\ timers = 0
  /\ drains = EmptyBag

\* C20 (as stated) - a failed HTTP call has its request closure added to
\* the retry queue exactly when its descriptor is retryable and of the kind
\* NETWORK_ERROR, TIMEOUT_ERROR or SERVER_ERROR, on every HTTP client.
QueuedByPolicy ==
  service.httpFailed =>
    LET d == service.intercepted[1]
    IN  service.queued <=>
          (d.canRetry /\ d.type \in {"NETWORK_ERROR", "TIMEOUT_ERROR", "SERVER_ERROR"})

\* the console channel the severity routes to
SeverityChannel(severity) ==
  CASE severity \in {"CRITICAL", "HIGH"} -> "error"
    [] severity = "MEDIUM" -> "warn"
    [] severity = "LOW" -> "log"

\* C21 - createErrorResponse logs every error it classifies exactly once,
\* whatever its severity, on the channel its severity routes to (CRITICAL
\* and HIGH: error, MEDIUM: warning, LOW: info); no envelope is returned
\* without the log entry of its descriptor.
LoggedOncePerSeverity ==
  /\ Len(service.console) = service.built
  /\ \A i \in DOMAIN service.console :
       service.console[i].channel = SeverityChannel(service.console[i].severity)
  /\ (service.value # Null /\ service.value[1].tag = "ErrorResponse") =>
       LET made == service.value[1]
           last == service.console[Len(service.console)]
       IN  /\ last.severity = made.error.severity
           /\ last.type = made.error.type
           /\ last.id = made.errorId

\* a validation error (severity LOW) was logged on the info channel
LowErrorLoggedOnInfo ==
  /\ service.fn = "createErrorResponse"
  /\ service.value[1].error.type = "VALIDATION_ERROR"
  /\ Len(service.console) = 1
  /\ service.console[1].channel = "log"

\* the ledger of a drain in progress: no operation invoked twice, in flight
\* are the operations invoked and not yet settled, waiting are the entries
\* not yet invoked
DrainLedger ==
  \A d \in ActiveDrains :
    /\ DOMAIN d.invoked = DrainIds(d) \cup {i \in DOMAIN d.invoked : d.settled[i] > 0}
    /\ \A i \in DOMAIN d.invoked :
         /\ d.invoked[i] <= 1
         /\ d.settled[i] <= d.invoked[i]
         /\ i \in d.pending <=> (d.invoked[i] = 1 /\ d.settled[i] = 0)

\* a drain starts with the ledger of every entry of the queue, and returns
\* in the step that settles the last of them, each invoked once
DrainReturnStep ==
  /\ \A d \in ActiveDrains' \ ActiveDrains :
       ActiveDrains = {} =>
         DOMAIN d.invoked = {retryQueue[i].id : i \in DOMAIN retryQueue}
  /\ \A d \in ActiveDrains :
       ActiveDrains' = {} =>
         \E id \in d.pending :
           /\ d.pending = {id}
           /\ d.rest = <<>>
           /\ \A i \in DOMAIN d.invoked :
                /\ d.invoked[i] = 1
                /\ d.settled[i] = (IF i = id THEN 0 ELSE 1)
           /\ Len(outcomes'[id]) = Len(outcomes[id]) + 1

\* C22 - Drain termination.  When every queued operation settles in the
\* end, a processRetryQueue call that began a drain returns, and at its
\* return every entry that was in the queue at its start has been invoked
\* exactly once by this drain and has settled.
DrainTerminates ==
  /\ (drains # EmptyBag) ~> (drains = EmptyBag)
  /\ []DrainLedger
  /\ [][DrainReturnStep]_vars

\* a drain of 4 entries has returned: a second chunk was invoked and settled
DrainOfTwoChunksReturned ==
  /\ drains = EmptyBag
  /\ lastCall[1] = "processItem"
  /\ lastCall[2] = 4
  /\ \A i \in 1..4 : Len(outcomes[i]) = 1

\* the number of calls in progress that have the operation of id in flight
RECURSIVE InFlightIn(_, _)
InFlightIn(ds, id) ==
  IF ds = {} THEN 0
  ELSE LET d == CHOOSE x \in ds : TRUE
       IN  (IF id \in d.pending THEN CopiesIn(d, drains) ELSE 0)
           + InFlightIn(ds \ {d}, id)

InFlight(id) == InFlightIn(ActiveDrains, id)

\* the operations in flight over all calls in progress
RECURSIVE TotalInFlight(_)
TotalInFlight(ds) ==
  IF ds = {} THEN 0
  ELSE LET d == CHOOSE x \in ds : TRUE
       IN  Cardinality(d.pending) * CopiesIn(d, drains) + TotalInFlight(ds \ {d})

\* how often the operation of id was invoked since the entry was enqueued:
\* the invocations that settled and those in flight
Invocations(id) == Len(outcomes[id]) + InFlight(id)

\* an operation is invoked for the 4th time (or later) only while another
\* call has the same operation in flight, and then while the entry is
\* still queued
RaceStep ==
  \A id \in DOMAIN outcomes :
    (InFlight(id)' > InFlight(id) /\ Invocations(id)' > 3) =>
      /\ InFlight(id) >= 1
      /\ Present(id)

\* C23 - Racing drains.  An entry's operation is invoked a 4th time before
\* the entry is evicted, and more than 3 operations are in flight at once,
\* only when processRetryQueue calls overlap: the 4th invocation begins
\* while another call has the operation in flight, and more than 3 are in
\* flight only over two or more calls; calls that do not overlap invoke the
\* operation of an entry at most 3 times between its enqueue and its removal.
RacingDrains ==
  /\ [](TotalInFlight(ActiveDrains) > 3 => BagCardinality(drains) >= 2)
  /\ [](\A id \in DOMAIN outcomes :
          (Present(id) /\ InFlight(id) <= 1) => Invocations(id) <= 3)
  /\ [][RaceStep]_vars

\* two overlapping drains have 4 operations in flight, and that of entry 1,
\* which failed twice and is still queued, is invoked for the 3rd and 4th time
FourthInvocationWhileQueued ==
  /\ BagCardinality(drains) = 2
  /\ TotalInFlight(ActiveDrains) = 4
  /\ QueuedWithCount(1, 2)
  /\ Invocations(1) = 4

\* C24 - In every reachable state every entry of retryQueue has a
\* retryCount of 0, 1 or 2 (the failure that would raise it to 3 removes
\* the entry in the same step), so getRetryableRequests() returns the whole
\* queue.
RetryCountBelowThree ==
  /\ \A i \in DOMAIN retryQueue : retryQueue[i].retryCount \in {0, 1, 2}
  /\ getRetryableRequests = retryQueue

\* an entry has just failed for the 2nd time and is still queued while the
\* operation of another call for it is in flight
TwiceFailedStillQueued ==
  /\ lastCall = <<"processItem", 1, FALSE>>
  /\ QueuedWithCount(1, 2)
  /\ \E d \in ActiveDrains : 1 \in d.pending

\* the operation the queue holds under id differs from the one the drain d
\* invoked for id: the entry was replaced after d took its snapshot
ReplacedInFlight(d, id) ==
  /\ id \in d.pending
  /\ \E i \in DOMAIN retryQueue :
       retryQueue[i].id = id /\ retryQueue[i].request # d.snapshot[id]

\* the settle of an operation whose entry was replaced meanwhile
ReplacedStep ==
  \A d \in ActiveDrains : \A id \in d.pending :
    (ReplacedInFlight(d, id) /\ lastCall' \in {<<"processItem", id, TRUE>>,
                                               <<"processItem", id, FALSE>>}) =>
      /\ QueuedWithCount(id, 0)
      /\ outcomes[id] = <<>>
      /\ d.invoked[id] = 1
      /\ IF lastCall'[3] THEN ~Present(id)' ELSE QueuedWithCount(id, 1)'

\* C25 - Outcomes are matched to entries by id only.  When
\* addToRetryQueue(id, op2) replaces an entry while the replay of the
\* earlier entry for the same id is in flight, the success of the earlier
\* operation removes the new entry, whose op2 was never invoked, and its
\* failure raises the retryCount of the new entry from 0 to 1.
OutcomeMatchedById == [][ReplacedStep]_vars

\* the replay of opA for id 1 failed after opB had replaced the entry: the
\* drain, still waiting for another operation, invoked opA once, and the
\* entry that holds opB has the count 1
ReplacementChargedForEarlierFailure ==
  /\ lastCall = <<"processItem", 1, FALSE>>
  /\ \E d \in ActiveDrains :
       /\ 1 \in DOMAIN d.snapshot
       /\ d.snapshot[1] = "opA"
       /\ d.invoked[1] = 1
       /\ d.settled[1] = 1
  /\ \E i \in DOMAIN retryQueue :
       /\ retryQueue[i].id = 1
       /\ retryQueue[i].request = "opB"
       /\ retryQueue[i].retryCount = 1

\* the ids whose operations are in flight
InFlightIds == UNION {d.pending : d \in ActiveDrains}

\* the step invokes a queued operation
InvokesOperation == InFlightIds' \ InFlightIds # {}

\* C26 (as stated) - processRetryQueue invokes no queued operation while
\* canMakeRequests() is false (isConnected false, or isInternetReachable
\* false).
NoReplayWhileCannotMakeRequests ==
  [][InvokesOperation => canMakeRequests]_vars

\* the last operation of a chunk settles while the store is disconnected
\* and entries of the snapshot are waiting: the next 3 of them are invoked
OfflineChunkStep ==
  \A d \in ActiveDrains :
    (/\ ~isConnected
     /\ Cardinality(d.pending) = 1
     /\ d.rest # <<>>
     /\ lastCall'[1] = "processItem") =>
      /\ InFlightIds' = {d.rest[i].id : i \in 1..Min(3, Len(d.rest))}
      /\ ~isConnected'

\* C27 - Connectivity is read once, at the start of a drain.  When
\* setConnectionStatus sets isConnected to false while a batch is in
\* flight, the operations of the remaining batches of that drain are still
\* invoked.
ConnectivityReadOnce == [][OfflineChunkStep]_vars

\* the second batch of a drain was invoked by the settle of the first while
\* the store is disconnected
SecondBatchInvokedOffline ==
  /\ ~isConnected
  /\ lastCall[1] = "processItem"
  /\ lastCall[2] \in 1..3
  /\ InFlightIds = {4}

\* C28 (as stated) - Re-classification preserves the descriptor: the
\* envelope that a service's createErrorResponse builds from the value the
\* response interceptor rejected with has the type, severity, canRetry and
\* statusCode of the interceptor's descriptor.
ReclassificationPreservesDescriptor ==
  (/\ service.httpFailed
   /\ service.built = 1
   /\ service.value[1].tag = "ErrorResponse") =>
    LET made == service.value[1].error
        first == service.intercepted[1]
    IN  /\ made.type = first.type
        /\ made.severity = first.severity
        /\ made.canRetry = first.canRetry
        /\ made.statusCode = first.statusCode

\* C29 (as stated) - a drain never increases the number of entries of
\* retryQueue: the replay of a queued auth request that fails again with a
\* network error adds no further entry under a new id.
DrainNeverGrowsQueue ==
  [][lastCall'[1] = "processItem" => Len(retryQueue') <= Len(retryQueue)]_vars

\* the callers whose verifyRedemption call returned an order for the code
RedeemedBy(code) ==
  {c \in Callers : /\ calls[c].stage = "returned"
                   /\ calls[c].code = code
                   /\ calls[c].result # Null}

\* C30 (as stated) - a redemption code is redeemed at most once: under any
\* interleaving of verifyRedemption calls at most one call for a given
\* code returns a non-null order; every other call for the code returns
\* null.
RedeemedAtMostOnce ==
  \A code \in RedemptionCodes : Cardinality(RedeemedBy(code)) <= 1

====
